---- MODULE Spec2Model ----
(***************************************************************************)
(* A model of alphapeptstats: the plotting facade of DataSet_Plot.py (the  *)
(* class Plot, mixed into DataSet), the upload helper of                   *)
(* gui/utils/analysis_helper.py and the Streamlit page                     *)
(* gui/pages/02_Import Data.py.                                            *)
(*                                                                         *)
(* Python values are encoded as follows.  None is the empty sequence and a *)
(* value v that may be None is <<v>>.  A dict or an object is a record; an *)
(* object without an attribute is a record without that field.  A column   *)
(* name is a sequence of strings (its parts, concatenated by the code).    *)
(***************************************************************************)
EXTENDS Integers, Sequences, FiniteSets, TLC

VARIABLES
    mat,                \* DataSet.mat: the intensity matrix, samples x protein groups
    metadata,           \* DataSet.metadata: one row per sample
    preprocessing_info, \* DataSet.preprocessing_info
    call,               \* the last call of a plotting function and its arguments
    ret,                \* how that call ended: a returned value or a raised exception
    session,            \* st.session_state of the import page: key -> value
    widgets,            \* what the browser holds: the selected software and the uploaded files
    run,                \* the last run of the page script: how it ended and what it did
    pclass,             \* the attributes the class proteinObject has besides its methods
    po,                 \* the proteinObject the caller holds, None before one is constructed
    pocall,             \* the last call on proteinObject and its arguments
    poret               \* how that call ended

plotvars == <<mat, metadata, preprocessing_info, call, ret>>

importvars == <<session, widgets, run>>

proteinvars == <<pclass, po, pocall, poret>>

vars == <<mat, metadata, preprocessing_info, call, ret, session, widgets, run,
          pclass, po, pocall, poret>>

None == <<>>
Some(v) == <<v>>
Get(o) == o[1]

Range(s) == {s[i] : i \in DOMAIN s}

RECURSIVE DistinctSeq(_)
\* the distinct elements of s, in the order of their first appearance
DistinctSeq(s) ==
    IF s = <<>> THEN <<>>
    ELSE LET r == DistinctSeq(SubSeq(s, 1, Len(s) - 1))
         IN  IF s[Len(s)] \in Range(r) THEN r ELSE Append(r, s[Len(s)])

(***************************************************************************)
(* Bounds of the model.                                                    *)
(***************************************************************************)
MaxSamples == 3
MaxDERows == 2

AllSamples == <<"S1", "S2", "S3", "S4">>
ProteinIds == <<"P1", "P2">>

\* the method strings each plotting function is called with: the ones it
\* supports, one that another function supports and one that none supports
SampledistributionMethods == {"violin", "box", "scatter", "umap"}
IntensityMethods == {"violin", "box", "scatter", "anova", "umap"}
VolcanoMethods == {"wald", "ttest", "anova", "pca", "umap"}
DimensionalityReductionMethods == {"pca", "tsne", "violin", "umap"}

\* the names passed as group or color: None, a metadata column, and a name
\* that is no column of the metadata
GroupArgs == {None, Some("disease"), Some("batch")}

\* the names passed as id: a protein group of the matrix and one that is not
IdArgs == {"P1", "P9"}

\* a cell of a metadata column is an integer or a string
IntCell(n) == [int |-> n]
StrCell(s) == [str |-> s]

\* str(n) for the integers the metadata columns hold
IntToStr(n) == CASE n = 0 -> "0" [] n = 1 -> "1" [] OTHER -> "2"

\* str(cell): Series.apply(str) maps it over a column
CellStr(c) == IF "int" \in DOMAIN c THEN StrCell(IntToStr(c.int)) ELSE c

(***************************************************************************)
(* Outcomes of a call.                                                     *)
(***************************************************************************)
Return(v) == [kind |-> "return", exc |-> "", about |-> "", value |-> v]

\* exception exc raised; about is the offending name its message gives
Raise(exc, about) == [kind |-> "raise", exc |-> exc, about |-> about, value |-> None]

(***************************************************************************)
(* Figures.  cls is the Python class of the object; attrs holds the public *)
(* attributes beyond those of plotly's Figure: plotly.graph_objects.Figure *)
(* has none of them, plotly_object declares the three as class attributes. *)
(***************************************************************************)
NoAttrs == [a \in {} |-> None]

\* plotly.io.templates["alphastats_colors"].layout.colorway
colorway == <<"#009599", "#005358", "#772173", "#B65EAF", "#A73A00",
              "#6490C1", "#FF894F", "#2B5E8B", "#A87F32">>

\* the traces plotly express draws for n rows: one trace when no color column
\* is given, else one per distinct value of the color column in order of first
\* appearance (none for an empty frame); trace k takes colour k of the colorway
PxTraces(n, color) ==
    LET idx == [i \in 1..n |-> i]
    IN  IF color = None
        THEN << [legendgroup |-> "", points |-> idx,
                 marker |-> [color |-> Some(colorway[1])]] >>
        ELSE LET col == Get(color)
                 groups == DistinctSeq(col)
             IN  [k \in 1..Len(groups) |->
                    [legendgroup |-> groups[k],
                     points |-> SelectSeq(idx, LAMBDA i : col[i] = groups[k]),
                     marker |-> [color |-> Some(colorway[((k - 1) % Len(colorway)) + 1])]]]

\* px.scatter(data_frame, x, y, color): a plain plotly Figure
PxScatter(n, color) ==
    [cls |-> "Figure", chart |-> "scatter", traces |-> PxTraces(n, color),
     shapes |-> <<>>, layout |-> [yaxis_type |-> "linear", showlegend |-> TRUE],
     attrs |-> NoAttrs]

\* px.violin / px.box / px.scatter of plot_sampledistribution and
\* plot_intensity over the long frame df; their traces are not modelled
PxChart(chart, df, x, y, color) ==
    [cls |-> "Figure", chart |-> chart, df |-> df, x |-> x, y |-> y, color |-> color,
     layout |-> [yaxis_type |-> "linear", showlegend |-> TRUE], attrs |-> NoAttrs]

\* class plotly_object(Figure): the figure converted, with the class attributes
plotly_object(fig) ==
    [fig EXCEPT !.cls = "plotly_object",
                !.attrs = [plotting_data |-> None, preprocessing |-> None, method |-> None]]

\* Plot._update_colors_plotly: the traces recoloured by legendgroup, and the
\* result converted back with go.Figure(fig_dict)
update_colors_plotly(fig, color_dict) ==
    [cls |-> "Figure", chart |-> fig.chart,
     traces |-> [k \in DOMAIN fig.traces |->
                    [fig.traces[k] EXCEPT !.marker.color =
                        IF fig.traces[k].legendgroup \in DOMAIN color_dict
                        THEN Some(color_dict[fig.traces[k].legendgroup])
                        ELSE None]],
     shapes |-> fig.shapes, layout |-> fig.layout, attrs |-> NoAttrs]

\* Plot._add_circles_to_scatterplot: one circle per trace, in the trace's
\* colour, added to the figure itself
add_circles_to_scatterplot(fig) ==
    [fig EXCEPT !.shapes = fig.shapes \o
        [k \in DOMAIN fig.traces |->
            [type |-> "circle", fillcolor |-> fig.traces[k].marker.color]]]

\* Plot._update_figure_attributes
update_figure_attributes(figure_object, plotting_data, method, info) ==
    [figure_object EXCEPT !.attrs =
        [plotting_data |-> Some(plotting_data), preprocessing |-> Some(info),
         method |-> Some(method)]]

\* fig.update_layout(yaxis=dict(type="log")) when log_scale
LogScale(fig, log_scale) ==
    IF log_scale THEN [fig EXCEPT !.layout.yaxis_type = "log"] ELSE fig

(***************************************************************************)
(* The dataset.  mat is [index, columns, na]: the sample labels of its     *)
(* rows, the protein groups of its columns and the cells that hold no      *)
(* value; the intensities themselves are not modelled.  metadata is a      *)
(* record of columns, each a sequence with one cell per row.               *)
(***************************************************************************)
MetadataColumns(md) == DOMAIN md

\* DataSet._subset: the rows of the matrix whose sample the metadata lists
subset(m, md) ==
    LET keep == Range(md.sample)
    IN  [m EXCEPT !.index = SelectSeq(m.index, LAMBDA s : s \in keep),
                  !.na = {c \in m.na : c[1] \in keep}]

\* DataFrame.fillna(0)
fillna(m) == [m EXCEPT !.na = {}]

\* alphastats.utils.check_for_missing_values: the decorated function is not
\* entered on a matrix that holds a missing value
check_for_missing_values(m) == m.na # {}

\* PCA(n_components=2).fit_transform / TSNE(n_components=2).fit_transform:
\* one embedded row per row of the matrix it is given
fit_transform(m) == [i \in 1..Len(m.index) |-> [row |-> m.index[i]]]

\* the rows of the frame df whose sample the metadata lists, each with the
\* cells of its metadata row: df.merge(self.metadata, how="inner", on=["sample"])
merge(df, md) ==
    LET keep == Range(md.sample)
        pos(s) == CHOOSE i \in DOMAIN md.sample : md.sample[i] = s
        left == SelectSeq(df, LAMBDA r : r.sample \in keep)
    IN  [k \in DOMAIN left |->
            [protein |-> left[k].protein, sample |-> left[k].sample,
             meta |-> [c \in DOMAIN md |-> md[c][pos(left[k].sample)]]]]

\* self.mat.unstack().reset_index(): one row per protein group and sample
unstack(m) ==
    LET ns == Len(m.index)
    IN  [k \in 1..(Len(m.columns) * ns) |->
            [protein |-> m.columns[((k - 1) \div ns) + 1],
             sample |-> m.index[((k - 1) % ns) + 1]]]

(***************************************************************************)
(* Plot._plot_dimensionality_reduction.  The result is the outcome of the  *)
(* call and the metadata it leaves behind.                                 *)
(***************************************************************************)
plot_dimensionality_reduction(m, md, info, group, method, circle) ==
    IF check_for_missing_values(m)
    THEN [ret |-> Raise("ValueError", ""), metadata |-> md]
    ELSE IF group # None /\ Get(group) \notin MetadataColumns(md)
    THEN [ret |-> Raise("KeyError", Get(group)), metadata |-> md]
    ELSE
    LET g == Get(group)
        md1 == IF group # None
               THEN [md EXCEPT ![g] = [i \in DOMAIN md[g] |-> CellStr(md[g][i])]]
               ELSE md
        m1 == IF group # None THEN subset(m, md) ELSE m
        group_color == IF group # None
                       THEN Some([i \in DOMAIN md1[g] |-> md1[g][i].str])
                       ELSE None
        m2 == fillna(m1)
    IN  IF method \in {"pca", "tsne"}
        THEN LET components == fit_transform(m2)
                 fig0 == PxScatter(Len(components), group_color)
                 fig1 == plotly_object(fig0)
                 fig2 == update_figure_attributes(fig1, components, method, info)
                 fig3 == IF circle /\ group # None
                         THEN add_circles_to_scatterplot(fig2) ELSE fig2
             IN  [ret |-> Return(Some(fig3)), metadata |-> md1]
        ELSE [ret |-> Return(None), metadata |-> md1]

(***************************************************************************)
(* Plot.plot_sampledistribution                                            *)
(***************************************************************************)
plot_sampledistribution(m, md, method, color, log_scale) ==
    LET long == unstack(m)
        df == IF color # None THEN merge(long, md) ELSE long
        known == color = None \/ Get(color) \in MetadataColumns(md)
    IN  IF method \in {"violin", "box"}
        THEN IF known
             THEN Return(Some(LogScale(PxChart(method, df, "sample", Some("Intensity"), color),
                                       log_scale)))
             ELSE Raise("ValueError", Get(color))
        ELSE Raise("ValueError", method)

\* plot_intensity with the final else branch returning None instead of raising
plot_intensity_silent(m, md, id, group, method, log_scale) ==
    IF id \notin Range(m.columns)
    THEN Raise("KeyError", id)
    ELSE IF method \in {"violin", "box", "scatter"} /\ group # None
              /\ Get(group) \notin MetadataColumns(md)
    THEN Raise("ValueError", Get(group))
    ELSE Return(None)

(***************************************************************************)
(* Plot.plot_intensity                                                     *)
(***************************************************************************)
plot_intensity(m, md, id, group, method, log_scale) ==
    IF id \notin Range(m.columns)
    THEN Raise("KeyError", id)
    ELSE
    LET frame == [i \in DOMAIN m.index |-> [protein |-> id, sample |-> m.index[i]]]
        df == merge(frame, md)
        known == group = None \/ Get(group) \in MetadataColumns(md)
    IN  IF method \in {"violin", "box", "scatter"}
        THEN IF known
             THEN Return(Some(LogScale(PxChart(method, df, id, group, group), log_scale)))
             ELSE Raise("ValueError", Get(group))
        ELSE Raise("ValueError", method)

(***************************************************************************)
(* Plot.plot_volcano.  The differential-expression functions it calls      *)
(* (perform_diff_expression_analysis, calculate_ttest_fc, anova,           *)
(* _calculate_foldchange) are given by their results: de.columns are the   *)
(* p-value columns of the result table, de.rows its rows, each with the    *)
(* protein group, log2fc and a p-value 10^exp10.                           *)
(***************************************************************************)
Column(name) == <<name>>
TukeyColumn(a, b) == <<a, " vs. ", b, " Tukey Test">>

index_column == "Protein IDs"

\* the columns of the frame _calculate_foldchange returns
foldchange_columns == {Column("log2fc"), Column(index_column)}

\* -np.log10(p)
NegLog10(p) == 0 - p.exp10

Log2fcLimit == 10
Log2fcThreshold == 1
NegLog10Threshold == 1

color_dict ==
    ("non-significant" :> "#404040") @@ ("up" :> "#B65EAF") @@ ("down" :> "#009599")

\* the colour classes with the p-value threshold included: -log10(p) >= 1
volcano_color_inclusive(row) ==
    IF row.log2fc < 0 - Log2fcThreshold /\ NegLog10(row.p) >= NegLog10Threshold THEN "down"
    ELSE IF row.log2fc > Log2fcThreshold /\ NegLog10(row.p) >= NegLog10Threshold THEN "up"
    ELSE "non-significant"

\* np.select(condition, ["down", "up"], default="non-significant")
volcano_color(row) ==
    IF row.log2fc < 0 - Log2fcThreshold /\ NegLog10(row.p) > NegLog10Threshold THEN "down"
    ELSE IF row.log2fc > Log2fcThreshold /\ NegLog10(row.p) > NegLog10Threshold THEN "up"
    ELSE "non-significant"

\* the filter with the bounds included: -10 <= log2fc <= 10
volcano_filter_inclusive(rows) ==
    SelectSeq(rows, LAMBDA r : r.log2fc <= Log2fcLimit /\ r.log2fc >= 0 - Log2fcLimit)

\* result[(result["log2fc"] < 10) & (result["log2fc"] > -10)]
volcano_filter(rows) ==
    SelectSeq(rows, LAMBDA r : r.log2fc < Log2fcLimit /\ r.log2fc > 0 - Log2fcLimit)

plot_volcano(info, de, group1, group2, method) ==
    IF method \notin {"wald", "ttest", "anova"}
    THEN Raise("ValueError", method)
    ELSE
    LET pvalue_column ==
            CASE method = "wald" -> Column("qval")
              [] method = "ttest" -> Column("pvalue")
              [] OTHER -> IF TukeyColumn(group1, group2) \in foldchange_columns
                          THEN TukeyColumn(group1, group2)
                          ELSE TukeyColumn(group2, group1)
        filtered == volcano_filter(de.rows)
    IN  IF pvalue_column \notin de.columns
        THEN Raise("KeyError", "pvalue_column")
        ELSE
        LET result == [i \in DOMAIN filtered |->
                          [id |-> filtered[i].id, log2fc |-> filtered[i].log2fc,
                           p |-> filtered[i].p, neglog10 |-> NegLog10(filtered[i].p),
                           color |-> volcano_color(filtered[i])]]
            fig0 == PxScatter(Len(result), Some([i \in DOMAIN result |-> result[i].color]))
            fig1 == plotly_object(fig0)
            fig2 == update_figure_attributes(fig1, result, method, info)
            fig3 == update_colors_plotly(fig2, color_dict)
            fig4 == [fig3 EXCEPT !.layout.showlegend = FALSE]
        IN  Return(Some(fig4))

(***************************************************************************)
(* Plot.plot_correlation_matrix, Plot.plot_clustermap, Plot.plot_dendogram *)
(***************************************************************************)
\* self.mat.transpose(): protein groups x samples
transpose(m) == [index |-> m.columns, columns |-> m.index, na |-> {<<c[2], c[1]>> : c \in m.na}]

\* px.imshow(self.mat.transpose().corr(method=method)): samples x samples
plot_correlation_matrix(m, method) ==
    Return(Some([cls |-> "Figure", chart |-> "imshow", method |-> method,
                 x |-> m.index, y |-> m.index, attrs |-> NoAttrs]))

\* the colorway _clustermap_create_label_bar draws a colour from for each label
label_bar_colorway == <<"#009599", "#005358", "#772173", "#B65EAF", "#A73A00",
                        "#6490C1", "#FF894F">>

\* Plot._clustermap_get_colors_for_bar: each sample's cell mapped to the
\* shade of its value, the k-th distinct value taking shade k of the palette
clustermap_get_colors_for_bar(md, columnname, color) ==
    LET su == DistinctSeq(md[columnname])
        shade(v) == CHOOSE k \in DOMAIN su : su[k] = v
    IN  [i \in DOMAIN md[columnname] |->
            [color |-> color, shade |-> shade(md[columnname][i])]]

\* Plot._clustermap_create_label_bar; colors[i] is the colour random.choice
\* draws for the i-th label
clustermap_create_label_bar(md, list_of_labels, colors) ==
    [i \in DOMAIN list_of_labels |->
        clustermap_get_colors_for_bar(md, list_of_labels[i], colors[i])]

\* plot_clustermap entered on a matrix with a missing value
plot_clustermap_unchecked(m, md, label_bar, colors) ==
    IF label_bar # None /\ ~(Range(Get(label_bar)) \subseteq MetadataColumns(md))
    THEN Raise("KeyError", CHOOSE l \in Range(Get(label_bar)) : l \notin MetadataColumns(md))
    ELSE Return(Some([cls |-> "ClusterGrid", data |-> transpose(m),
                      col_colors |-> IF label_bar = None THEN None
                                     ELSE Some(clustermap_create_label_bar(
                                                 md, Get(label_bar), colors)),
                      attrs |-> NoAttrs]))

\* Plot.plot_clustermap(label_bar)
plot_clustermap(m, md, label_bar, colors) ==
    IF check_for_missing_values(m)
    THEN Raise("ValueError", "")
    ELSE IF label_bar # None /\ ~(Range(Get(label_bar)) \subseteq MetadataColumns(md))
    THEN Raise("KeyError", CHOOSE l \in Range(Get(label_bar)) : l \notin MetadataColumns(md))
    ELSE Return(Some([cls |-> "ClusterGrid", data |-> transpose(m),
                      col_colors |-> IF label_bar = None THEN None
                                     ELSE Some(clustermap_create_label_bar(
                                                 md, Get(label_bar), colors)),
                      attrs |-> NoAttrs]))

\* Plot.plot_dendogram(): create_dendrogram over the rows of the matrix
plot_dendogram(m) ==
    IF check_for_missing_values(m)
    THEN Raise("ValueError", "")
    ELSE Return(Some([cls |-> "Figure", chart |-> "dendrogram", labels |-> m.index,
                      attrs |-> NoAttrs]))

(***************************************************************************)
(* The inputs the model draws.                                             *)
(***************************************************************************)
\* rows of a differential-expression result: a log2fc on the cut-off -10, one
\* below -1 and one above 1, with p-values 0.1 and 0.01
DERowValues ==
    { [log2fc |-> -10, p |-> [exp10 |-> -2]], [log2fc |-> -2, p |-> [exp10 |-> -2]],
      [log2fc |-> 2, p |-> [exp10 |-> -1]],   [log2fc |-> 2, p |-> [exp10 |-> -2]] }

DERows ==
    UNION { { [i \in 1..k |-> [id |-> ProteinIds[((i - 1) % Len(ProteinIds)) + 1],
                               log2fc |-> f[i].log2fc, p |-> f[i].p]] :
              f \in [1..k -> DERowValues] } : k \in 1..MaxDERows }

\* the result tables the differential-expression functions can hand to
\* plot_volcano(column, group1, group2, method)
DEResults(group1, group2, method) ==
    LET cols == CASE method = "wald" -> {{Column("qval")}}
                  [] method = "ttest" -> {{Column("pvalue")}}
                  [] OTHER -> {{TukeyColumn(group1, group2)}, {TukeyColumn(group2, group1)}}
    IN  {[columns |-> c, rows |-> r] : c \in cols, r \in DERows}

NoDE == [columns |-> {}, rows |-> <<>>]

\* the correlation coefficients plot_correlation_matrix is called with
CorrelationMethods == {"pearson", "kendall", "spearman"}

\* the label bars plot_clustermap is called with: None, a metadata column,
\* and a name that is no column of the metadata
LabelBarArgs == {None, Some(<<"disease">>), Some(<<"batch">>)}

Call(fn, method, group, flag, id, de) ==
    [fn |-> fn, method |-> method, group |-> group, flag |-> flag, id |-> id, de |-> de]

NoCall == Call("", "", None, FALSE, "", NoDE)

\* the import page before it is opened
NoWidgets == [software |-> "<select>", softwarefile |-> None, metadatafile |-> None]
NoRun == [trigger |-> "", end |-> "", exc |-> "", rendered |-> {}]


InitPlot ==
    /\ \E na \in {{}, {<<"S1", "P1">>}} :
          /\ mat = [index |-> SubSeq(AllSamples, 1, MaxSamples), columns |-> ProteinIds,
                    na |-> na]
          /\ \E k \in 2..MaxSamples, ints \in BOOLEAN :
                metadata =
                    [sample |-> SubSeq(AllSamples, 1, k),
                     disease |-> [i \in 1..k |->
                                    IF ints THEN IntCell(i % 2)
                                    ELSE StrCell(IF i % 2 = 0 THEN "healthy" ELSE "sick")]]
    /\ preprocessing_info = [imputation |-> IF mat.na = {} THEN Some("mean") ELSE None]
    /\ call = NoCall
    /\ ret = Return(None)
    /\ session = [k \in {} |-> None]
    /\ widgets = NoWidgets
    /\ run = NoRun
    /\ pclass = [a \in {} |-> None]
    /\ po = None
    /\ pocall = [fn |-> ""]
    /\ poret = Return(None)

\* ds.plot_pca(group, circle)
PlotPca ==
    \E group \in GroupArgs, circle \in BOOLEAN :
        LET r == plot_dimensionality_reduction(mat, metadata, preprocessing_info,
                                               group, "pca", circle)
        IN  /\ call' = Call("plot_pca", "pca", group, circle, "", NoDE)
            /\ ret' = r.ret
            /\ metadata' = r.metadata
            /\ UNCHANGED <<mat, preprocessing_info, importvars, proteinvars>>

\* ds.plot_tsne(group, circle)
PlotTsne ==
    \E group \in GroupArgs, circle \in BOOLEAN :
        LET r == plot_dimensionality_reduction(mat, metadata, preprocessing_info,
                                               group, "tsne", circle)
        IN  /\ call' = Call("plot_tsne", "tsne", group, circle, "", NoDE)
            /\ ret' = r.ret
            /\ metadata' = r.metadata
            /\ UNCHANGED <<mat, preprocessing_info, importvars, proteinvars>>

\* ds._plot_dimensionality_reduction(group, method, circle), called directly
PlotDimensionalityReduction ==
    \E group \in GroupArgs, method \in DimensionalityReductionMethods, circle \in BOOLEAN :
        LET r == plot_dimensionality_reduction(mat, metadata, preprocessing_info,
                                               group, method, circle)
        IN  /\ call' = Call("_plot_dimensionality_reduction", method, group, circle, "", NoDE)
            /\ ret' = r.ret
            /\ metadata' = r.metadata
            /\ UNCHANGED <<mat, preprocessing_info, importvars, proteinvars>>

\* ds.plot_sampledistribution(method, color, log_scale)
PlotSampledistribution ==
    \E method \in SampledistributionMethods, color \in GroupArgs, log_scale \in BOOLEAN :
        /\ call' = Call("plot_sampledistribution", method, color, log_scale, "", NoDE)
        /\ ret' = plot_sampledistribution(mat, metadata, method, color, log_scale)
        /\ UNCHANGED <<mat, metadata, preprocessing_info, importvars, proteinvars>>

\* ds.plot_intensity(id, group, method, log_scale)
PlotIntensity ==
    \E id \in IdArgs, group \in GroupArgs, method \in IntensityMethods,
       log_scale \in BOOLEAN :
        /\ call' = Call("plot_intensity", method, group, log_scale, id, NoDE)
        /\ ret' = plot_intensity(mat, metadata, id, group, method, log_scale)
        /\ UNCHANGED <<mat, metadata, preprocessing_info, importvars, proteinvars>>

\* ds.plot_volcano(column="disease", group1, group2, method)
PlotVolcano ==
    \E method \in VolcanoMethods :
        \E de \in IF method \in {"wald", "ttest", "anova"}
                  THEN DEResults("healthy", "sick", method) ELSE {NoDE} :
            /\ call' = Call("plot_volcano", method, Some("disease"), FALSE, "", de)
            /\ ret' = plot_volcano(preprocessing_info, de, "healthy", "sick", method)
            /\ UNCHANGED <<mat, metadata, preprocessing_info, importvars, proteinvars>>

\* ds.plot_correlation_matrix(method)
PlotCorrelationMatrix ==
    \E method \in CorrelationMethods :
        /\ call' = Call("plot_correlation_matrix", method, None, FALSE, "", NoDE)
        /\ ret' = plot_correlation_matrix(mat, method)
        /\ UNCHANGED <<mat, metadata, preprocessing_info, importvars, proteinvars>>

\* ds.plot_clustermap(label_bar)
PlotClustermap ==
    \E label_bar \in LabelBarArgs :
        \E colors \in [1..(IF label_bar = None THEN 0 ELSE Len(Get(label_bar)))
                          -> Range(label_bar_colorway)] :
            /\ call' = Call("plot_clustermap", "", label_bar, FALSE, "", NoDE)
            /\ ret' = plot_clustermap(mat, metadata, label_bar, colors)
            /\ UNCHANGED <<mat, metadata, preprocessing_info, importvars, proteinvars>>

\* ds.plot_dendogram()
PlotDendogram ==
    /\ call' = Call("plot_dendogram", "", None, FALSE, "", NoDE)
    /\ ret' = plot_dendogram(mat)
    /\ UNCHANGED <<mat, metadata, preprocessing_info, importvars, proteinvars>>

NextPlot ==
    \/ PlotPca
    \/ PlotTsne
    \/ PlotDimensionalityReduction
    \/ PlotSampledistribution
    \/ PlotIntensity
    \/ PlotVolcano
    \/ PlotCorrelationMatrix
    \/ PlotClustermap
    \/ PlotDendogram

SpecPlot == InitPlot /\ [][NextPlot]_vars

(***************************************************************************)
(* Properties of the plotting functions.                                   *)
(***************************************************************************)
Returned == ret.kind = "return" /\ ret.value # None

RECURSIVE NumPoints(_)
\* the number of rows a figure plots: the points of all its traces
NumPoints(traces) ==
    IF traces = <<>> THEN 0 ELSE Len(Head(traces).points) + NumPoints(Tail(traces))

RaisedValueErrorNamingMethod ==
    /\ ret.kind = "raise"
    /\ ret.exc = "ValueError"
    /\ ret.about = call.method
    /\ ret.value = None

\* C1 as stated: plot_sampledistribution with a method other than 'violin' or
\* 'box', plot_intensity with a method other than 'violin', 'box' or 'scatter'
\* and plot_volcano with a method other than 'wald', 'ttest' or 'anova' each
\* raise a ValueError naming the rejected method and return no figure.
C1_UnsupportedMethodRaisesValueError ==
    (\/ call.fn = "plot_sampledistribution" /\ call.method \notin {"violin", "box"}
     \/ call.fn = "plot_intensity" /\ call.method \notin {"violin", "box", "scatter"}
     \/ call.fn = "plot_volcano" /\ call.method \notin {"wald", "ttest", "anova"})
    => RaisedValueErrorNamingMethod

\* C1 amended: the same, for plot_intensity only when id is a column of the
\* matrix; with an id that is no column of the matrix plot_intensity raises a
\* KeyError for the id before it looks at the method.  No figure is returned
\* either way.
C1_UnsupportedMethodRaisesAfterLookup ==
    /\ (\/ call.fn = "plot_sampledistribution" /\ call.method \notin {"violin", "box"}
        \/ /\ call.fn = "plot_intensity"
           /\ call.method \notin {"violin", "box", "scatter"}
           /\ call.id \in Range(mat.columns)
        \/ call.fn = "plot_volcano" /\ call.method \notin {"wald", "ttest", "anova"})
       => RaisedValueErrorNamingMethod
    /\ (call.fn = "plot_intensity" /\ call.id \notin Range(mat.columns))
       => (ret.kind = "raise" /\ ret.exc = "KeyError" /\ ret.about = call.id
           /\ ret.value = None)

C1_Witness ==
    /\ call.fn = "plot_intensity"
    /\ call.method = "umap"
    /\ call.id \in Range(mat.columns)
    /\ ret.exc = "ValueError"
    /\ ret.about = "umap"

\* C2: _plot_dimensionality_reduction raises an error when its method is
\* neither 'pca' nor 'tsne'; it never returns normally for such a method.
C2_UnsupportedReductionMethodRaises ==
    (call.fn = "_plot_dimensionality_reduction" /\ call.method \notin {"pca", "tsne"})
    => ret.kind = "raise"

\* C9: every figure returned by plot_pca, plot_tsne and plot_volcano carries
\* the annotations of _update_figure_attributes: plotting_data is set, method
\* is the method used and preprocessing is the dataset's preprocessing_info.
C9_ReturnedFiguresAnnotated ==
    (call.fn \in {"plot_pca", "plot_tsne", "plot_volcano"} /\ Returned)
    => LET fig == Get(ret.value)
       IN  /\ {"plotting_data", "method", "preprocessing"} \subseteq DOMAIN fig.attrs
           /\ fig.attrs.plotting_data # None
           /\ fig.attrs.method = Some(call.method)
           /\ fig.attrs.preprocessing = Some(preprocessing_info)

\* the rows of the matrix _plot_dimensionality_reduction hands to the
\* estimator: all of them, or with a group those of the metadata's samples
EstimatorRows ==
    IF call.group = None THEN Len(mat.index)
    ELSE Cardinality({i \in DOMAIN mat.index : mat.index[i] \in Range(metadata.sample)})

\* C10 as stated: a returned figure plots as many rows as its input table has:
\* for plot_pca and plot_tsne the rows of the matrix given to the estimator,
\* for plot_volcano the rows of the differential-expression result.
C10_FigureRowsEqualInputRows ==
    /\ (call.fn \in {"plot_pca", "plot_tsne"} /\ Returned)
       => NumPoints(Get(ret.value).traces) = EstimatorRows
    /\ (call.fn = "plot_volcano" /\ Returned)
       => NumPoints(Get(ret.value).traces) = Len(call.de.rows)

\* C10 amended: for plot_pca and plot_tsne as stated; for plot_volcano the
\* figure plots one row per row of the result whose log2fc lies strictly
\* between -10 and 10, the rows outside that range are dropped.
C10_FigureRowsEqualKeptRows ==
    /\ (call.fn \in {"plot_pca", "plot_tsne"} /\ Returned)
       => NumPoints(Get(ret.value).traces) = EstimatorRows
    /\ (call.fn = "plot_volcano" /\ Returned)
       => NumPoints(Get(ret.value).traces) =
            Cardinality({i \in DOMAIN call.de.rows :
                            call.de.rows[i].log2fc > -10 /\ call.de.rows[i].log2fc < 10})

C10_Witness ==
    /\ call.fn = "plot_volcano"
    /\ Returned
    /\ Len(call.de.rows) = 2
    /\ NumPoints(Get(ret.value).traces) = 1

PlottingFunctions ==
    {"plot_pca", "plot_tsne", "plot_correlation_matrix", "plot_sampledistribution",
     "plot_intensity", "plot_volcano", "plot_clustermap", "plot_dendogram"}

\* C11: a call of plot_pca, plot_tsne, plot_correlation_matrix,
\* plot_sampledistribution, plot_intensity, plot_volcano, plot_clustermap or
\* plot_dendogram leaves the matrix and the metadata as they were, in values
\* and in the types of the cells.
C11_PlottingLeavesDatasetUnchanged ==
    [][call'.fn \in PlottingFunctions => (mat' = mat /\ metadata' = metadata)]_vars

\* the matrix holds a missing value and the dataset has not been imputed
MissingAndNotImputed == mat.na # {} /\ preprocessing_info.imputation = None

VolcanoKept == SelectSeq(call.de.rows, LAMBDA r : r.log2fc > -10 /\ r.log2fc < 10)

VolcanoClass(r) ==
    IF r.log2fc < -1 /\ (0 - r.p.exp10) > 1 THEN "down"
    ELSE IF r.log2fc > 1 /\ (0 - r.p.exp10) > 1 THEN "up"
    ELSE "non-significant"

VolcanoClassColor(class) ==
    CASE class = "non-significant" -> Some("#404040")
      [] class = "up" -> Some("#B65EAF")
      [] class = "down" -> Some("#009599")
      [] OTHER -> None

\* C14: the figure plot_volcano returns plots exactly the rows with
\* -10 < log2fc < 10, each in one trace; the trace of a row is that of its
\* class ('down' iff log2fc < -1 and -log10(p) > 1, 'up' iff log2fc > 1 and
\* -log10(p) > 1, else 'non-significant'), and every trace has the colour of
\* its class: #404040, #B65EAF, #009599.
C14_VolcanoRowsClassifiedAndColoured ==
    (call.fn = "plot_volcano" /\ Returned)
    => LET fig == Get(ret.value)
       IN  /\ \A i \in DOMAIN VolcanoKept :
                Cardinality({k \in DOMAIN fig.traces :
                                i \in Range(fig.traces[k].points)}) = 1
           /\ \A k \in DOMAIN fig.traces :
                /\ fig.traces[k].marker.color # None
                /\ fig.traces[k].marker.color = VolcanoClassColor(fig.traces[k].legendgroup)
                /\ \A i \in Range(fig.traces[k].points) :
                      /\ i \in DOMAIN VolcanoKept
                      /\ VolcanoClass(VolcanoKept[i]) = fig.traces[k].legendgroup

C14_Witness ==
    /\ call.fn = "plot_volcano"
    /\ Returned
    /\ Len(call.de.rows) = 2
    /\ {Get(ret.value).traces[k].legendgroup : k \in DOMAIN Get(ret.value).traces}
          = {"down", "non-significant"}

\* C15: plot_volcano with method 'anova' takes its p-values from the Tukey
\* column of the result that compares the two groups, in whichever order the
\* result names them, so with such a column in the result it returns a
\* figure and does not fail on a missing column.
C15_AnovaUsesTukeyColumnOfResult ==
    (/\ call.fn = "plot_volcano"
     /\ call.method = "anova"
     /\ \/ TukeyColumn("healthy", "sick") \in call.de.columns
        \/ TukeyColumn("sick", "healthy") \in call.de.columns)
    => (Returned /\ ret.exc # "KeyError")

(***************************************************************************)
(* gui/utils/analysis_helper.py and gui/pages/02_Import Data.py.           *)
(*                                                                         *)
(* An uploaded file is [stem, ext, table]: its name is stem.ext and table  *)
(* is what the pandas reader its suffix selects parses out of it (the      *)
(* files of the model are well formed for that reader).  A data frame is   *)
(* [reader, sep, table], recording the reader that produced it.            *)
(***************************************************************************)
\* filename.endswith("." + ext)
endswith(file, ext) == file.ext = ext

\* pd.read_excel(file)
read_excel(file) == [reader |-> "read_excel", sep |-> "", table |-> file.table]

\* pd.read_csv(file, delimiter=sep)
read_csv(file, sep) == [reader |-> "read_csv", sep |-> sep, table |-> file.table]

\* the reader with the branch for ".tsv" left out
read_uploaded_file_into_df_no_tsv(file) ==
    IF endswith(file, "xlsx") THEN Some(read_excel(file))
    ELSE IF endswith(file, "txt") THEN Some(read_csv(file, "\t"))
    ELSE IF endswith(file, "csv") THEN Some(read_csv(file, ","))
    ELSE None

\* read_uploaded_file_into_df: the data frame, or None after logging a warning
read_uploaded_file_into_df(file) ==
    IF endswith(file, "xlsx") THEN Some(read_excel(file))
    ELSE IF endswith(file, "txt") \/ endswith(file, "tsv") THEN Some(read_csv(file, "\t"))
    ELSE IF endswith(file, "csv") THEN Some(read_csv(file, ","))
    ELSE None

\* the type list of the software file uploader; the metadata uploader has none
softwarefile_types == {"csv", "tsv", "txt", "hdf"}

(***************************************************************************)
(* The inputs the model draws.                                             *)
(***************************************************************************)
\* the proteomics software packages offered besides "<select>"
\* (the keys of software_options)
SoftwareOptions == {"MaxQuant", "DIANN"}

\* sample names of the proteomics files
ProteomicsSamples == <<"S1", "S2">>

\* software tables: a MaxQuant table and a DIA-NN table, each of them not a
\* valid file of the other software
SoftwareTables ==
    { [columns |-> <<"Protein IDs", "Reverse", "Potential contaminant">>,
       object_dtype |-> TRUE, samples |-> ProteomicsSamples],
      [columns |-> <<"Protein.Group">>,
       object_dtype |-> FALSE, samples |-> ProteomicsSamples] }

MaxMetaRows == 2

\* a metadata column of MaxMetaRows values: one sample name repeated, one
\* sample name followed by distinct foreign names, distinct foreign names only
Repeated(name) == [i \in 1..MaxMetaRows |-> name]
Foreign == [i \in 1..MaxMetaRows |-> <<"x1", "x2", "x3", "x4">>[i]]
Matching(name) == [i \in 1..MaxMetaRows |-> IF i = 1 THEN name ELSE Foreign[i]]

MetadataTable(sample, group) ==
    [columns |-> <<"sample", "group">>, data |-> [sample |-> sample, group |-> group]]

\* metadata tables: the column "sample" repeats a sample name, matches one
\* uniquely or matches none, next to a column "group" that matches none; and
\* a table whose two columns both match
MetadataTables ==
    { MetadataTable(sample, Foreign) :
        sample \in {Repeated("S1"), Matching("S1"), Foreign} }
    \cup { MetadataTable(Matching("S1"), Repeated("S2")) }

SomeSoftwareTable == CHOOSE t \in SoftwareTables : Len(t.columns) = 3
SomeMetadataTable == MetadataTable(Matching("S1"), Foreign)

\* the files a user can hand to the software uploader: its type list is
\* enforced, so only extensions of the list get through
SoftwareFiles ==
    { [stem |-> "proteins", ext |-> "csv", table |-> t] : t \in SoftwareTables }
    \cup { [stem |-> "proteins", ext |-> e, table |-> SomeSoftwareTable] :
           e \in softwarefile_types \cap {"txt", "hdf"} }

\* the files a user can hand to the metadata uploader, which takes any name
MetadataFiles ==
    { [stem |-> "metadata", ext |-> "csv", table |-> t] : t \in MetadataTables }
    \cup { [stem |-> "metadata", ext |-> e, table |-> SomeMetadataTable] :
           e \in {"xlsx", "tsv", "pdf"} }

(***************************************************************************)
(* st.session_state and the context of one run of the page script.         *)
(***************************************************************************)
EmptySession == [k \in {} |-> None]
Put(ss, k, v) == [x \in DOMAIN ss \cup {k} |-> IF x = k THEN v ELSE ss[x]]
Del(ss, ks) == [x \in DOMAIN ss \ ks |-> ss[x]]

\* the keys Streamlit keeps for the widgets of the page
WidgetKeys == {"software", "intensity_column", "index_column", "metadatafile",
               "sample_column"}

Ctx(ss, w, trigger) ==
    [ss |-> ss, w |-> w, trigger |-> trigger,
     end |-> "running", exc |-> "",
     errors |-> {},        \* messages of st.error
     shown |-> {},         \* previews and notices written to the page
     written |-> {},       \* session keys the script assigned
     rendered |-> {},      \* widgets the script created
     form_options |-> <<>>,\* options of the sample column selectbox
     sw_read |-> None,     \* the software file read, with the frame
     md_read |-> None,     \* the metadata file read, with the frame
     samples |-> <<>>,     \* sample names the metadata was matched against
     submitted |-> None,   \* the sample column submitted with the form
     loader_call |-> None, \* the table handed to the loader function
     loader_set |-> FALSE, \* session 'loader' assigned from that loader
     result |-> FALSE,     \* what select_sample_column_metadata returns
     deleted |-> {},       \* session keys empty_session_state deleted
     start |-> None]       \* after st.rerun(): the session the run started from

\* st.session_state[k] = v
Assign(c, k, v) == [c EXCEPT !.ss = Put(c.ss, k, v), !.written = @ \cup {k}]

\* a widget with key k is created and holds v
Widget(c, k, v) == [c EXCEPT !.ss = Put(c.ss, k, v), !.rendered = @ \cup {k}]

Rendered(c, w) == [c EXCEPT !.rendered = @ \cup {w}]
Error(c, msg) == [c EXCEPT !.errors = @ \cup {msg}]
Show(c, what) == [c EXCEPT !.shown = @ \cup {what}]

\* an exception nobody catches ends the run
Uncaught(c, exc) == [c EXCEPT !.end = "exception", !.exc = exc]

\* st.stop()
Stop(c) == [c EXCEPT !.end = "stopped"]

(***************************************************************************)
(* The functions of the page.  Each takes the context of the run and       *)
(* returns it as the function leaves it; a run that has ended (st.stop, an *)
(* uncaught exception) executes nothing further.                           *)
(***************************************************************************)
Running(c) == c.end = "running"

\* st.session_state[k] = v under "if k not in st.session_state"
Default(c, k, v) == IF k \in DOMAIN c.ss THEN c ELSE Assign(c, k, v)

\* load_options()
load_options(c) ==
    Assign(Assign(c, "plotting_options", "plotting_options"),
           "statistic_options", "statistic_options")

InvalidFileErrors ==
    {"This is not a valid MaxQuant file.", "This is not a valid AlphaPept file.",
     "This is not a valid DIA-NN file.", "This is not a valid Spectronaut file.",
     "This is not a valid FragPipe file."}

\* check_software_file(df, software); df is None when the file was not read
check_software_file(c, df, software) ==
    LET expect(expected_columns, msg) ==
            IF df = None THEN Uncaught(c, "AttributeError")
            ELSE IF ~(expected_columns \subseteq Range(Get(df).table.columns))
            THEN Error(c, msg)
            ELSE c
    IN  CASE software = "MaxQuant" ->
                expect({"Protein IDs", "Reverse", "Potential contaminant"},
                       "This is not a valid MaxQuant file.")
          [] software = "AlphaPept" ->
                IF df = None THEN Uncaught(c, "AttributeError")
                ELSE IF Get(df).table.object_dtype
                THEN Error(c, "This is not a valid AlphaPept file.")
                ELSE c
          [] software = "DIANN" ->
                expect({"Protein.Group"}, "This is not a valid DIA-NN file.")
          [] software = "Spectronaut" ->
                expect({"PG.ProteinGroups"}, "This is not a valid Spectronaut file.")
          [] software = "FragPipe" ->
                expect({"Protein"}, "This is not a valid FragPipe file.")
          [] OTHER -> c

\* select_columns_for_loaders: the two selectboxes, holding their first option
select_columns_for_loaders(c, software) ==
    Widget(Widget(c, "intensity_column", "intensity column of " \o software),
           "index_column", "index column of " \o software)

\* software_options.get(software)["loader_function"](df, ...): the loader
\* built from the frame
loader_function(df, software) == [software |-> software, data |-> df.table]

\* load_proteomics_data and the assignment of its loader to the session;
\* loader_raises says whether the loader function raises on the frame
load_proteomics_data(c, df, software, loader_raises) ==
    IF loader_raises
    THEN Uncaught([c EXCEPT !.loader_call = Some(df.table)], "loader exception")
    ELSE [Assign([c EXCEPT !.loader_call = Some(df.table)], "loader",
                 Some(loader_function(df, software)))
            EXCEPT !.loader_set = TRUE]

\* the frame read from the software file of this run
softwarefile_df(c) == Get(c.sw_read).df

\* upload_softwarefile, line 185: the uploaded file is read
softwarefile_read(c) ==
    [c EXCEPT !.sw_read = Some([file |-> Get(c.w.softwarefile),
                                df |-> read_uploaded_file_into_df(Get(c.w.softwarefile))])]

\* upload_softwarefile, line 188
softwarefile_checked(c, software) == check_software_file(c, softwarefile_df(c), software)

\* upload_softwarefile, lines 190-196: the preview and the column selectboxes
softwarefile_preview(c, software) ==
    IF ~Running(c) THEN c
    ELSE IF softwarefile_df(c) = None THEN Uncaught(c, "AttributeError")
    ELSE select_columns_for_loaders(Show(c, "software file preview"), software)

\* upload_softwarefile, lines 198-208
softwarefile_loaded(c, software, loader_raises) ==
    IF ~Running(c) \/ ~({"intensity_column", "index_column"} \subseteq DOMAIN c.ss) THEN c
    ELSE load_proteomics_data(c, Get(softwarefile_df(c)), software, loader_raises)

\* upload_softwarefile(software)
upload_softwarefile(c, software, loader_raises) ==
    IF c.w.softwarefile = None THEN Rendered(c, "softwarefile")
    ELSE softwarefile_loaded(
           softwarefile_preview(
             softwarefile_checked(softwarefile_read(Rendered(c, "softwarefile")), software),
             software),
           software, loader_raises)

\* DataSet(loader=..., metadata_path=..., sample_column=...)
DataSet(loader, metadata_path, sample_column) ==
    [software |-> loader.software, rawinput |-> loader.data,
     metadata |-> metadata_path, sample |-> sample_column]

\* get_sample_names_from_software_file(): the sample names of the loader
get_sample_names_from_software_file(ss) == Get(ss["loader"]).data.samples

\* every column passes for a sample column
valid_sample_columns_all(df, samples_proteomics_data) == df.table.columns

\* the columns of df that share a value with the sample names
valid_sample_columns(df, samples_proteomics_data) ==
    SelectSeq(df.table.columns,
              LAMBDA col : Range(samples_proteomics_data) \cap Range(df.table.data[col]) # {})

\* len(df[col].to_list()) != len(df[col].unique())
has_duplicates(values) == Len(values) # Cardinality(Range(values))

\* select_sample_column_metadata, lines 147-158
metadata_matched(c, df) ==
    [(IF Len(valid_sample_columns(df, get_sample_names_from_software_file(c.ss))) = 0
      THEN Error(c, "Metadata does not match Proteomics data.")
      ELSE c)
        EXCEPT !.samples = get_sample_names_from_software_file(c.ss)]

\* select_sample_column_metadata, lines 165-167: the form; its selectbox
\* holds the submitted option, else its first option, and None without
\* options
sample_column_form(c, df) ==
    LET valid == valid_sample_columns(df, c.samples)
        column == IF c.trigger.kind = "submit" /\ c.trigger.column # None
                     /\ Get(c.trigger.column) \in Range(valid)
                  THEN c.trigger.column
                  ELSE IF Len(valid) = 0 THEN None ELSE Some(valid[1])
    IN  [Widget(Rendered(c, "sample_column form"), "sample_column", column)
            EXCEPT !.form_options = valid]

\* the check of the submitted column without st.stop()
submitted_sample_column_no_stop(c, df) ==
    LET column == c.ss["sample_column"]
    IN  IF column = None \/ Get(column) \notin Range(df.table.columns)
        THEN Uncaught([c EXCEPT !.submitted = Some(column)], "KeyError")
        ELSE IF has_duplicates(df.table.data[Get(column)])
        THEN Error([c EXCEPT !.submitted = Some(column), !.result = TRUE],
                   "Sample names have to be unique.")
        ELSE [c EXCEPT !.submitted = Some(column), !.result = TRUE]

\* select_sample_column_metadata, lines 169-175: the check of the submitted
\* sample column
submitted_sample_column(c, df) ==
    LET column == c.ss["sample_column"]
    IN  IF column = None \/ Get(column) \notin Range(df.table.columns)
        THEN Uncaught([c EXCEPT !.submitted = Some(column)], "KeyError")
        ELSE IF has_duplicates(df.table.data[Get(column)])
        THEN Stop(Error([c EXCEPT !.submitted = Some(column)],
                        "Sample names have to be unique."))
        ELSE [c EXCEPT !.submitted = Some(column), !.result = TRUE]

\* select_sample_column_metadata(df, software); c.result is what it returns
select_sample_column_metadata(c, df, software) ==
    IF software \notin SoftwareOptions
    THEN Uncaught(metadata_matched(c, df), "AttributeError")
    ELSE IF c.trigger.kind # "submit"
    THEN sample_column_form(metadata_matched(c, df), df)
    ELSE submitted_sample_column(sample_column_form(metadata_matched(c, df), df), df)

\* create_metadata_file()
create_metadata_file(c) ==
    Rendered(Assign(c, "metadata_columns", <<"sample">>), "download template")

\* the frame read from the metadata file of this run
metadatafile_df(c) == Get(c.md_read).df

\* upload_metadatafile, line 238: the uploaded file is read
metadatafile_read(c) ==
    [c EXCEPT !.md_read = Some([file |-> Get(c.w.metadatafile),
                                df |-> read_uploaded_file_into_df(Get(c.w.metadatafile))])]

\* upload_metadatafile, lines 240-248: the preview and the sample column
metadatafile_preview(c, software) ==
    IF metadatafile_df(c) = None THEN Uncaught(c, "AttributeError")
    ELSE select_sample_column_metadata(Show(c, "metadata file preview"),
                                       Get(metadatafile_df(c)), software)

\* upload_metadatafile, lines 248-256: the dataset of the metadata file
metadatafile_dataset(c) ==
    IF ~Running(c) \/ ~c.result THEN c
    ELSE load_options(
           Assign(Assign(c, "dataset",
                         DataSet(Get(c.ss["loader"]), Some(Get(metadatafile_df(c)).table),
                                 c.ss["sample_column"])),
                  "metadata_columns", Get(metadatafile_df(c)).table.columns))

\* upload_metadatafile, lines 237-256
metadatafile_uploaded(c, software) ==
    IF c.w.metadatafile = None \/ c.ss["loader"] = None THEN c
    ELSE metadatafile_dataset(metadatafile_preview(metadatafile_read(c), software))

\* upload_metadatafile, lines 258-264
metadatafile_template(c) ==
    IF Running(c) /\ c.ss["loader"] # None THEN create_metadata_file(c) ELSE c

\* upload_metadatafile, lines 266-271
dataset_without_metadata(c) ==
    IF ~Running(c) \/ c.ss["loader"] = None THEN c
    ELSE IF c.trigger.kind = "create without metadata"
    THEN load_options(
           Assign(Assign(Rendered(c, "create without metadata"), "dataset",
                         DataSet(Get(c.ss["loader"]), None, None)),
                  "metadata_columns", <<"sample">>))
    ELSE Rendered(c, "create without metadata")

\* upload_metadatafile(software)
upload_metadatafile(c, software) ==
    dataset_without_metadata(
      metadatafile_template(
        metadatafile_uploaded(Widget(c, "metadatafile", c.w.metadatafile), software)))

\* the sample files of load_sample_data()
SampleLoader ==
    [software |-> "MaxQuant",
     data |-> [columns |-> <<"Protein IDs", "Reverse", "Potential contaminant">>,
               object_dtype |-> TRUE, samples |-> ProteomicsSamples]]

SampleMetadataColumns ==
    <<"sample", "disease", "Drug therapy (procedure) (416608005)",
      "Lipid-lowering therapy (134350008)">>

SampleMetadata ==
    [columns |-> SampleMetadataColumns,
     data |-> [col \in Range(SampleMetadataColumns) |->
                 IF col = "sample" THEN ProteomicsSamples
                 ELSE [i \in DOMAIN ProteomicsSamples |-> "0"]]]

\* load_sample_data()
load_sample_data(c) ==
    load_options(
      Assign(Assign(Assign(c, "loader", Some(SampleLoader)),
                    "metadata_columns", SampleMetadataColumns),
             "dataset", DataSet(SampleLoader, Some(SampleMetadata), Some("sample"))))

\* empty_session_state() that resets 'software' and deletes no key
empty_session_state_keep(c) ==
    Assign(Assign(c, "software", "<select>"), "user_session_id", "session id")

\* empty_session_state()
empty_session_state(c) ==
    Assign(Assign([c EXCEPT !.ss = EmptySession, !.deleted = DOMAIN c.ss],
                  "software", "<select>"),
           "user_session_id", "session id")

\* lines 34-44: the defaults of the session
session_defaults(c) ==
    Default(Default(Default(Assign(c, "user_session_id", "session id"),
                            "loader", None),
                    "gene_to_prot_id", <<>>),
            "organism", 9606)

\* import_data, lines 318-319
import_software(c, loader_raises) ==
    IF c.ss["software"] # "<select>"
    THEN upload_softwarefile(c, c.ss["software"], loader_raises)
    ELSE c

\* import_data, lines 320-323
import_metadata(c) ==
    IF ~Running(c) THEN c
    ELSE IF "loader" \notin DOMAIN c.ss THEN Assign(c, "loader", None)
    ELSE IF c.ss["loader"] # None THEN upload_metadatafile(c, c.ss["software"])
    ELSE c

\* import_data()
import_data(c, loader_raises) ==
    import_metadata(import_software(Widget(c, "software", c.w.software), loader_raises))

\* lines 384-390: the imported dataset is shown
dataset_display(c) ==
    IF ~Running(c) \/ "dataset" \notin DOMAIN c.ss THEN c
    ELSE Show(Default(c, "distribution_plot", "violin plot of rawmat"), "dataset preview")

\* lines 392-420: the button "Load sample DataSet - PXD011839"
sample_button(c) ==
    IF ~Running(c) THEN c
    ELSE IF c.trigger.kind = "load sample"
    THEN load_sample_data(Rendered(c, "load sample"))
    ELSE Rendered(c, "load sample")

\* lines 423-429: the button "New Session: Import new dataset"
new_session_button(c) ==
    IF ~Running(c) THEN c
    ELSE IF c.trigger.kind = "new session"
    THEN [empty_session_state(Rendered(c, "new session")) EXCEPT !.end = "rerun"]
    ELSE Rendered(c, "new session")

\* the module script, top to bottom
page_script(ss, w, trigger, loader_raises) ==
    new_session_button(
      sample_button(
        dataset_display(
          import_data(session_defaults(Ctx(ss, w, trigger)), loader_raises))))

\* st.rerun(): one more run, which sees the session the run left and no
\* interaction
rerun(c, loader_raises) ==
    IF c.end # "rerun" THEN c
    ELSE [page_script(c.ss,
                      [software |-> c.ss["software"], softwarefile |-> c.w.softwarefile,
                       metadatafile |-> IF "metadatafile" \in DOMAIN c.ss
                                        THEN c.w.metadatafile ELSE None],
                      [kind |-> "rerun", column |-> None], loader_raises)
            EXCEPT !.start = Some(c.ss), !.deleted = c.deleted]

\* what is left when a run is over: Streamlit drops the state of the widgets
\* the run did not create, unless an exception ended it
Finish(c) ==
    IF c.end = "exception" THEN c
    ELSE [c EXCEPT
            !.ss = Del(c.ss, WidgetKeys \ c.rendered),
            !.w = [software |-> c.w.software,
                   softwarefile |-> IF "softwarefile" \in c.rendered
                                    THEN c.w.softwarefile ELSE None,
                   metadatafile |-> IF "metadatafile" \in c.rendered
                                    THEN c.w.metadatafile ELSE None]]

Trigger(kind, column) == [kind |-> kind, column |-> column]

\* a user interaction starts a run of the script
Interact(ss, w, trigger, loader_raises) ==
    Finish(rerun(page_script(ss, w, trigger, loader_raises), loader_raises))

Log(c) ==
    [trigger |-> c.trigger.kind,
     end |-> IF c.end = "running" THEN "completed" ELSE c.end,
     exc |-> c.exc, errors |-> c.errors, shown |-> c.shown, written |-> c.written,
     rendered |-> c.rendered, form_options |-> c.form_options,
     sw_read |-> c.sw_read, md_read |-> c.md_read, samples |-> c.samples,
     submitted |-> c.submitted, loader_call |-> c.loader_call,
     loader_set |-> c.loader_set, deleted |-> c.deleted, start |-> c.start]

Outcome(c) ==
    /\ session' = c.ss
    /\ widgets' = c.w
    /\ run' = Log(c)
    /\ UNCHANGED <<plotvars, proteinvars>>

InitImport ==
    /\ mat = [index |-> SubSeq(AllSamples, 1, MaxSamples), columns |-> ProteinIds, na |-> {}]
    /\ metadata = [sample |-> SubSeq(AllSamples, 1, MaxSamples),
                   disease |-> [i \in 1..MaxSamples |-> StrCell("healthy")]]
    /\ preprocessing_info = [imputation |-> None]
    /\ call = NoCall
    /\ ret = Return(None)
    /\ pclass = [a \in {} |-> None]
    /\ po = None
    /\ pocall = [fn |-> ""]
    /\ poret = Return(None)
    /\ \E loader_raises \in BOOLEAN :
         LET c == Interact(EmptySession, NoWidgets, Trigger("open", None), loader_raises)
         IN  session = c.ss /\ widgets = c.w /\ run = Log(c)

\* the user picks another proteomics software; the file uploader of the new
\* software starts empty
SelectSoftware ==
    \E software \in SoftwareOptions \cup {"<select>"}, loader_raises \in BOOLEAN :
        /\ "software" \in run.rendered
        /\ software # widgets.software
        /\ Outcome(Interact(session,
                            [widgets EXCEPT !.software = software, !.softwarefile = None],
                            Trigger("select software", None), loader_raises))

\* the user uploads a software file
UploadSoftwareFile ==
    \E file \in SoftwareFiles, loader_raises \in BOOLEAN :
        /\ "softwarefile" \in run.rendered
        /\ Some(file) # widgets.softwarefile
        /\ Outcome(Interact(session, [widgets EXCEPT !.softwarefile = Some(file)],
                            Trigger("upload software file", None), loader_raises))

\* the user uploads a metadata file
UploadMetadataFile ==
    \E file \in MetadataFiles, loader_raises \in BOOLEAN :
        /\ "metadatafile" \in run.rendered
        /\ Some(file) # widgets.metadatafile
        /\ Outcome(Interact(session, [widgets EXCEPT !.metadatafile = Some(file)],
                            Trigger("upload metadata file", None), loader_raises))

\* the user submits the form "sample_column" with one of its options
SubmitSampleColumn ==
    \E column \in IF run.form_options = <<>> THEN {None}
                  ELSE {Some(o) : o \in Range(run.form_options)},
       loader_raises \in BOOLEAN :
        /\ "sample_column form" \in run.rendered
        /\ Outcome(Interact(session, widgets, Trigger("submit", column), loader_raises))

\* the user presses "Create a DataSet without metadata"
CreateWithoutMetadata ==
    \E loader_raises \in BOOLEAN :
        /\ "create without metadata" \in run.rendered
        /\ Outcome(Interact(session, widgets, Trigger("create without metadata", None),
                            loader_raises))

\* the user presses "Load sample DataSet - PXD011839"
LoadSample ==
    \E loader_raises \in BOOLEAN :
        /\ "load sample" \in run.rendered
        /\ Outcome(Interact(session, widgets, Trigger("load sample", None), loader_raises))

\* the user presses "New Session: Import new dataset"
NewSession ==
    \E loader_raises \in BOOLEAN :
        /\ "new session" \in run.rendered
        /\ Outcome(Interact(session, widgets, Trigger("new session", None), loader_raises))

NextImport ==
    \/ SelectSoftware
    \/ UploadSoftwareFile
    \/ UploadMetadataFile
    \/ SubmitSampleColumn
    \/ CreateWithoutMetadata
    \/ LoadSample
    \/ NewSession

SpecImport == InitImport /\ [][NextImport]_vars

(***************************************************************************)
(* Properties of the import page.                                          *)
(***************************************************************************)
SupportedSuffixes == {"xlsx", "txt", "tsv", "csv"}

\* the reads of the last run: <<file, frame or None>>
Reads ==
    {Get(r) : r \in {run.sw_read, run.md_read} \ {None}}

\* the metadata table the last run matched against the sample names
Matched == run.samples # <<>> /\ run.md_read # None /\ Get(run.md_read).df # None

MatchedTable == Get(Get(run.md_read).df).table

NoColumnMatches(table, samples) ==
    \A col \in Range(table.columns) : Range(samples) \cap Range(table.data[col]) = {}

\* the last run wrote a dataset built from the metadata table it read
DatasetFromMatchedTable ==
    /\ "dataset" \in run.written
    /\ "dataset" \in DOMAIN session
    /\ session["dataset"].metadata = Some(MatchedTable)

\* the last run checked a submitted sample column that holds a duplicate
SubmittedDuplicate ==
    /\ Matched
    /\ run.submitted # None
    /\ Get(run.submitted) # None
    /\ Get(Get(run.submitted)) \in Range(MatchedTable.columns)
    /\ has_duplicates(MatchedTable.data[Get(Get(run.submitted))])

\* C3: a dataset with metadata in the session has pairwise distinct values in
\* its sample column; a run that checks a submitted sample column with a
\* duplicate value reports "Sample names have to be unique.", ends in
\* st.stop(), and writes neither 'dataset' nor 'metadata_columns'.
C3_DatasetOnlyFromUniqueSampleColumn ==
    /\ ("dataset" \in DOMAIN session /\ session["dataset"].metadata # None)
          => ~has_duplicates(
                Get(session["dataset"].metadata).data[Get(session["dataset"].sample)])
    /\ SubmittedDuplicate
          => /\ "Sample names have to be unique." \in run.errors
             /\ run.end = "stopped"
             /\ {"dataset", "metadata_columns"} \cap run.written = {}

C3_Witness ==
    /\ SubmittedDuplicate
    /\ run.trigger = "submit"
    /\ run.end = "stopped"

\* C4: a run that matches a metadata table none of whose columns shares a
\* value with the sample names reports "Metadata does not match Proteomics
\* data." and writes no dataset built from that table, the run of the
\* submitted form included.
C4_NoOverlapReportedAndNoDataset ==
    (Matched /\ NoColumnMatches(MatchedTable, run.samples))
        => /\ "Metadata does not match Proteomics data." \in run.errors
           /\ ~DatasetFromMatchedTable

C4_Witness ==
    /\ Matched
    /\ NoColumnMatches(MatchedTable, run.samples)
    /\ run.trigger = "submit"
    /\ "dataset" \notin run.written

\* C5: every file with suffix xlsx, txt, tsv or csv that a run reads yields
\* a frame, produced by read_excel for xlsx, by read_csv with a tab for txt
\* and tsv, and by read_csv with a comma for csv.
C5_SupportedSuffixReadBySuffix ==
    \A r \in Reads :
        r.file.ext \in SupportedSuffixes
            => /\ r.df # None
               /\ Get(r.df).table = r.file.table
               /\ r.file.ext = "xlsx" => Get(r.df).reader = "read_excel"
               /\ r.file.ext \in {"txt", "tsv"}
                     => Get(r.df).reader = "read_csv" /\ Get(r.df).sep = "\t"
               /\ r.file.ext = "csv"
                     => Get(r.df).reader = "read_csv" /\ Get(r.df).sep = ","

C5_Witness ==
    /\ run.sw_read # None /\ Get(run.sw_read).file.ext = "txt"
    /\ run.md_read # None /\ Get(run.md_read).file.ext = "tsv"
    /\ \A r \in Reads : r.df # None /\ Get(r.df).sep = "\t"

\* C6: a run that reads a file of another suffix shows the user a message,
\* does not end in an uncaught exception, and stores neither a loader nor a
\* dataset.
C6_UnsupportedSuffixReportedWithoutException ==
    (\E r \in Reads : r.file.ext \notin SupportedSuffixes)
        => /\ run.errors # {}
           /\ run.end # "exception"
           /\ ~run.loader_set
           /\ "dataset" \notin run.written

\* C7: the software uploader takes the suffixes txt, tsv, csv and xlsx and no
\* other, and every software file a run reads yields a frame.
C7_SoftwareUploaderFormats ==
    "softwarefile" \in run.rendered
        => /\ softwarefile_types = SupportedSuffixes
           /\ run.sw_read # None => Get(run.sw_read).df # None

\* C8: a run in which check_software_file reports an invalid file hands no
\* table to a loader function and does not assign session 'loader'.
C8_RejectedFileBuildsNoLoader ==
    (run.errors \cap InvalidFileErrors # {})
        => /\ run.loader_call = None
           /\ ~run.loader_set
           /\ "loader" \notin run.written

\* C13: the run that follows the button "New Session: Import new dataset"
\* starts from a session that holds 'software' = "<select>" and
\* 'user_session_id' and nothing else, whatever keys the session held; at
\* its end 'dataset' is absent, 'loader' is None and no dataset preview was
\* displayed.
C13_NewSessionEmptiesSession ==
    run.trigger = "rerun"
        => /\ run.start # None
           /\ DOMAIN Get(run.start) = {"software", "user_session_id"}
           /\ Get(run.start)["software"] = "<select>"
           /\ "dataset" \notin DOMAIN session
           /\ "loader" \in DOMAIN session
           /\ session["loader"] = None
           /\ "dataset preview" \notin run.shown

C13_Witness ==
    /\ run.trigger = "rerun"
    /\ {"dataset", "loader", "metadata_columns", "metadatafile"} \subseteq run.deleted
    /\ "dataset" \notin DOMAIN session

\* C19: at the end of a run that creates a DataSet from an uploaded metadata
\* file, session 'metadata_columns' is the column list of that file; it is
\* ['sample'] only when the run created its DataSet without metadata.
C19_MetadataColumnsAreFileColumns ==
    /\ (Matched /\ DatasetFromMatchedTable)
          => /\ "metadata_columns" \in DOMAIN session
             /\ session["metadata_columns"] = MatchedTable.columns
    /\ ("dataset" \in run.written /\ "dataset" \in DOMAIN session
        /\ "metadata_columns" \in DOMAIN session
        /\ session["metadata_columns"] = <<"sample">>)
          => session["dataset"].metadata = None

(***************************************************************************)
(* proteinObject.py.  A column name the prefix handling looks at is a       *)
(* sequence of characters.  A raw table is [ids, columns, marks, na]: the   *)
(* protein-ID column, the names of the value columns, the contamination    *)
(* columns (each a sequence of "+" or "" per row) and the cells without a  *)
(* value.  An object is the record of its instance attributes; an          *)
(* attribute it lacks is looked up on the class.                           *)
(***************************************************************************)
MaxProteins == 2

RawIds == <<"P1", "P2", "P3">>

\* "LFQ intensity ", the prefix named at lines 28 and 78
IntensityPrefix == <<"L", "F", "Q", " ", "i", "n", "t", "e", "n", "s", "i", "t", "y", " ">>

\* "LFQ intensity A1", "LFQ intensity s1", "iBAQ A1"
ValueColumns ==
    << IntensityPrefix \o <<"A", "1">>, IntensityPrefix \o <<"s", "1">>,
       <<"i", "B", "A", "Q", " ", "A", "1">> >>

ContaminationColumns == <<"Reverse", "Potential contaminant">>

\* the raw tables a loader holds
RawTables ==
    LET ids == SubSeq(RawIds, 1, MaxProteins)
    IN  { [ids |-> ids, columns |-> ValueColumns, marks |-> marks, na |-> na] :
            marks \in [Range(ContaminationColumns) -> [1..MaxProteins -> {"+", ""}]],
            na \in { {}, {<<"P1", ValueColumns[1]>>},
                     {<<id, ValueColumns[1]>> : id \in Range(ids)} } }

Loaders == {[software |-> "MaxQuant", data |-> t] : t \in RawTables}

\* the class as the source defines it, and with the two column names the
\* methods read defined on it (by a subclass or an assignment to the class)
ProteinClasses ==
    { NoAttrs, [proteinID_col |-> "Protein IDs", intensity_col |-> IntensityPrefix] }

\* the methods of the class
ProteinObjectMethods ==
    {"create_matrix", "preprocess", "load_metadata", "summary", "calculate_ttest_fc",
     "plot_pca", "plot_correlation_matrix", "plot_volcano"}

\* self.a = v
setattr(self, a, v) == [x \in DOMAIN self \cup {a} |-> IF x = a THEN v ELSE self[x]]

\* hasattr(self, a)
hasattr(cls, self, a) == a \in DOMAIN self \cup DOMAIN cls \cup ProteinObjectMethods

\* str.startswith(prefix)
startswith(name, prefix) ==
    Len(name) >= Len(prefix) /\ SubSeq(name, 1, Len(prefix)) = prefix

RECURSIVE lstrip(_, _)
\* str.lstrip(chars): the leading characters that occur in chars removed
lstrip(name, chars) ==
    IF name # <<>> /\ Head(name) \in Range(chars) THEN lstrip(Tail(name), chars) ELSE name

\* proteinObject.create_matrix: [self, ret]
create_matrix(cls, self) ==
    IF ~hasattr(cls, self, "proteinID_col")
    THEN [self |-> self, ret |-> Raise("AttributeError", "proteinID_col")]
    ELSE IF ~hasattr(cls, self, "intensity_col")
    THEN [self |-> self, ret |-> Raise("AttributeError", "intensity_col")]
    ELSE
    LET raw == self.rawdata
        kept == SelectSeq(raw.columns, LAMBDA c : startswith(c, cls.intensity_col))
        df == [index |-> raw.ids,
               columns |-> [i \in DOMAIN kept |-> lstrip(kept[i], cls.intensity_col)],
               na |-> {<<c[1], lstrip(c[2], cls.intensity_col)>> :
                         c \in {x \in raw.na : startswith(x[2], cls.intensity_col)}}]
    IN  [self |-> setattr(setattr(setattr(setattr(self, "mat", Some(df)),
                                          "normalization", None),
                                  "imputation", None),
                          "removed_protein_groups", None),
         ret |-> Return(None)]

\* the attributes __init__ sets after create_matrix, lines 53-65, for
\* metadata_path=None
init_attributes(self) ==
    setattr(setattr(setattr(setattr(setattr(setattr(setattr(self,
        "metadata", None), "experiment_type", None), "data_format", None),
        "preprocessing", None), "normalization", None),
        "removed_protein_groups", None), "imputation", None)

\* proteinObject(loader): [self, ret]; self is None when __init__ raises
proteinObject(cls, loader) ==
    LET r == create_matrix(cls, setattr(setattr(NoAttrs, "rawdata", loader.data),
                                        "software", loader.software))
    IN  IF r.ret.kind = "raise"
        THEN [self |-> None, ret |-> r.ret]
        ELSE [self |-> Some(init_attributes(setattr(r.self, "mat", r.ret.value))),
              ret |-> Return(None)]

\* line 112: the identifiers of the rows with a cell other than "+" in any of
\* the contamination columns
protein_groups_to_remove(raw, contamination_columns) ==
    LET rows == SelectSeq([i \in DOMAIN raw.ids |-> i],
                          LAMBDA i : \E c \in Range(contamination_columns) :
                                        raw.marks[c][i] # "+")
    IN  [k \in DOMAIN rows |-> raw.ids[rows[k]]]

\* SimpleImputer(strategy='mean') over the columns of the matrix and the
\* frame built from its output, lines 122-126: a column without any value
\* is discarded by transform, and the frame of the old shape cannot be built
impute_mean(m) ==
    IF \E c \in Range(m.columns) : \A id \in Range(m.index) : <<id, c>> \in m.na
    THEN None
    ELSE Some([m EXCEPT !.na = {}])

\* proteinObject.preprocess(contamination_columns=..., impute=...), with
\* normalization=None: [self, ret]
preprocess(cls, self, contamination_columns, impute) ==
    IF Len(contamination_columns) > 0
    THEN IF ~(Range(contamination_columns) \subseteq DOMAIN self.rawdata.marks)
         THEN [self |-> self, ret |-> Raise("KeyError", "contamination_columns")]
         ELSE IF ~hasattr(cls, self, "proteinID_col")
         THEN [self |-> self, ret |-> Raise("AttributeError", "proteinID_col")]
         ELSE IF ~hasattr(cls, self, "drop")
         THEN [self |-> self, ret |-> Raise("AttributeError", "drop")]
         ELSE [self |-> setattr(self, "removed_protein_groups",
                                Some(protein_groups_to_remove(self.rawdata,
                                                              contamination_columns))),
               ret |-> Return(None)]
    ELSE IF ~impute THEN [self |-> self, ret |-> Return(None)]
    ELSE IF self.mat = None
    THEN [self |-> self, ret |-> Raise("AttributeError", "values")]
    ELSE IF impute_mean(Get(self.mat)) = None
    THEN [self |-> self, ret |-> Raise("ValueError", "shape")]
    ELSE [self |-> setattr(setattr(self, "mat", impute_mean(Get(self.mat))),
                           "imputation",
                           Some("Missing values were imputed using the mean.")),
          ret |-> Return(None)]

\* the contamination_columns preprocess is called with
ContaminationArgs == {<<>>, ContaminationColumns}

InitProtein ==
    /\ mat = [index |-> SubSeq(AllSamples, 1, MaxSamples), columns |-> ProteinIds, na |-> {}]
    /\ metadata = [sample |-> SubSeq(AllSamples, 1, MaxSamples),
                   disease |-> [i \in 1..MaxSamples |-> StrCell("healthy")]]
    /\ preprocessing_info = [imputation |-> None]
    /\ call = NoCall
    /\ ret = Return(None)
    /\ session = EmptySession
    /\ widgets = NoWidgets
    /\ run = NoRun
    /\ pclass \in ProteinClasses
    /\ po = None
    /\ pocall = [fn |-> ""]
    /\ poret = Return(None)

\* po = proteinObject(loader)
NewProteinObject ==
    \E loader \in Loaders :
        LET r == proteinObject(pclass, loader)
        IN  /\ pocall' = [fn |-> "proteinObject", loader |-> loader]
            /\ poret' = r.ret
            /\ po' = IF r.self = None THEN po ELSE r.self
            /\ UNCHANGED <<pclass, plotvars, importvars>>

\* po.create_matrix()
CreateMatrix ==
    /\ po # None
    /\ LET r == create_matrix(pclass, Get(po))
       IN  /\ pocall' = [fn |-> "create_matrix"]
           /\ poret' = r.ret
           /\ po' = Some(r.self)
    /\ UNCHANGED <<pclass, plotvars, importvars>>

\* po.preprocess(contamination_columns=..., impute=...)
Preprocess ==
    /\ po # None
    /\ \E contamination_columns \in ContaminationArgs, impute \in BOOLEAN :
          LET r == preprocess(pclass, Get(po), contamination_columns, impute)
          IN  /\ pocall' = [fn |-> "preprocess",
                            contamination_columns |-> contamination_columns,
                            impute |-> impute]
              /\ poret' = r.ret
              /\ po' = Some(r.self)
    /\ UNCHANGED <<pclass, plotvars, importvars>>

NextProtein ==
    \/ NewProteinObject
    \/ CreateMatrix
    \/ Preprocess

SpecProtein == InitProtein /\ [][NextProtein]_vars

(***************************************************************************)
(* Properties of proteinObject.py                                          *)
(***************************************************************************)
\* the name without the prefix, and nothing else removed
WithoutPrefix(name, prefix) == SubSeq(name, Len(prefix) + 1, Len(name))

\* the intensity matrix of a raw table: indexed by the protein identifiers,
\* the columns starting with the prefix, each renamed without it
IntensityMatrix(raw) ==
    LET kept == SelectSeq(raw.columns, LAMBDA c : startswith(c, IntensityPrefix))
    IN  [index |-> raw.ids,
         columns |-> [i \in DOMAIN kept |-> WithoutPrefix(kept[i], IntensityPrefix)],
         na |-> {<<c[1], WithoutPrefix(c[2], IntensityPrefix)>> :
                   c \in {x \in raw.na : startswith(x[2], IntensityPrefix)}}]

\* the identifiers marked "+" in at least one of the columns
MarkedGroups(raw, columns) ==
    {raw.ids[i] : i \in {j \in DOMAIN raw.ids :
                           \E c \in Range(columns) : raw.marks[c][j] = "+"}}

\* C16: preprocess with a non-empty contamination_columns removes exactly the
\* protein groups marked '+' in at least one contamination column, keeps the
\* others, and records the removed identifiers in removed_protein_groups.
C16_ContaminationsRemovedAndRecorded ==
    [][(pocall'.fn = "preprocess" /\ Len(pocall'.contamination_columns) > 0
        /\ Get(po).mat # None)
       => /\ poret'.kind = "return"
          /\ Get(po').mat # None
          /\ Range(Get(Get(po').mat).index) =
                Range(Get(Get(po).mat).index)
                   \ MarkedGroups(Get(po).rawdata, pocall'.contamination_columns)
          /\ Get(po').removed_protein_groups # None
          /\ Range(Get(Get(po').removed_protein_groups)) =
                MarkedGroups(Get(po).rawdata, pocall'.contamination_columns)]_vars

\* C17: after preprocess(impute=True) the matrix has no missing value, the
\* same index and columns, every value that was present unchanged, and the
\* imputation field records mean imputation; with impute=False the imputation
\* field is unchanged.
C17_ImputationFillsMatrix ==
    [][pocall'.fn = "preprocess"
       => IF pocall'.impute
          THEN /\ poret'.kind = "return"
               /\ Get(po').mat # None
               /\ Get(Get(po').mat).na = {}
               /\ Get(po).mat # None
               /\ Get(Get(po').mat).index = Get(Get(po).mat).index
               /\ Get(Get(po').mat).columns = Get(Get(po).mat).columns
               /\ Get(po').imputation =
                     Some("Missing values were imputed using the mean.")
          ELSE Get(po').imputation = Get(po).imputation]_vars

\* C18: after construction from a loader, mat is the intensity matrix indexed
\* by the protein-ID column, with exactly the raw columns that start with the
\* intensity prefix, each renamed with that prefix and nothing else removed;
\* normalization, imputation and removed_protein_groups are None.
C18_ConstructedMatrixIsIntensityMatrix ==
    pocall.fn = "proteinObject"
       => /\ poret.kind = "return"
          /\ po # None
          /\ Get(po).mat = Some(IntensityMatrix(pocall.loader.data))
          /\ Get(po).normalization = None
          /\ Get(po).imputation = None
          /\ Get(po).removed_protein_groups = None

====
